---- MODULE Spec2Model ----
(***************************************************************************)
(* Model of generator/intermediate_data.hpp (namespace cache):             *)
(*   detail::IndexFile<TFile, uint64_t>   the (key, value) offset table    *)
(*   OSMElementCache<TMode>               payload file + offset index      *)
(* A write-mode object and the read-mode object that later opens the same  *)
(* files are modelled as phases of one state machine over the two files.   *)
(*   RawFilePointStorage, RawMemPointStorage, MapFilePointStorage          *)
(*                                        node id -> (lat, lon) stores     *)
(***************************************************************************)
EXTENDS Integers, Sequences, FiniteSets, TLC

\* ------------------------------------------------------------ constants
kFlushCount == 1024
\* sizeof(TElement) for TElement = pair<uint64_t, uint64_t>
kElementSize == 16
\* sizeof(uint32_t), the size prefix of a payload record
kSizeofU32 == 4

\* --------------------------------------------------------------- bounds
\* values passed to IndexFile::Add are 0..MaxValue
MaxValue == 1
\* payloads are the byte strings numbered 0..MaxPayload (see PayloadOf)
MaxPayload == 1
\* number of Add/Write calls made on one write-mode object
MaxCalls == 3
\* the flush specification also starts kFlushCount - FlushSlack Adds in
FlushSlack == 1

VARIABLES
  phase,        \* "write" | "closed" | "read" | "aborted"
  m_elements,   \* IndexFile::m_elements: sequence of <<key, value>>
  m_fileSize,   \* IndexFile::m_fileSize
  offsetsFile,  \* whole records of the index file on disk
  offsetsTail,  \* bytes of the index file after its last whole record
  m_storage,    \* bytes of the payload file on disk
  m_data,       \* OSMElementCache::m_data
  m_preload,    \* OSMElementCache::m_preload
  added,        \* history: every <<key, value>> passed to IndexFile::Add
  written,      \* history: every <<id, payload>> passed to Write
  nCalls,       \* number of Add/Write calls made since Init
  closedAfter,  \* history: the operation that preceded the writer's destruction
  lastOp,       \* the operation that returned last
  lastKey,      \* its key/id argument (0 when it has none)
  stopFrom,     \* its visitor returns true on values >= stopFrom (0: no visitor)
  ret,          \* its boolean result (FALSE when it returns none)
  visited,      \* the values its visitor was invoked on, in order
  value,        \* the caller's variable passed as the output argument
  strategy,     \* the point storage class in use ("none": no point storage)
  m_file,       \* records of the point file on disk
  m_map,        \* MapFilePointStorage::m_map
  m_processedPoint,  \* PointStorage::m_processedPoint
  points        \* history: every <<id, lat, lng>> passed to AddPoint

vars == <<phase, m_elements, m_fileSize, offsetsFile, offsetsTail, m_storage,
          m_data, m_preload, added, written, nCalls, closedAfter,
          lastOp, lastKey, stopFrom, ret, visited, value,
          strategy, m_file, m_map, m_processedPoint, points>>

fileVars  == <<offsetsFile, offsetsTail, m_storage>>
histVars  == <<added, written, nCalls, closedAfter>>
callVars  == <<lastKey, stopFrom, ret, visited>>
pointVars == <<strategy, m_file, m_map, m_processedPoint, points>>

\* the keys passed to IndexFile::Add, and those looked up: the same, one below
\* and one above
Keys   == {1, 2}
Probes == {0, 1, 2, 3}
Values == 0..MaxValue
\* the ids passed to OSMElementCache::Write, and those passed to Read: the
\* same and one that is never written
Ids      == {1, 2, 3}
IdProbes == {1, 2, 3, 4}

\* FileReader::Size() of the index file
OffsetsFileSize == Len(offsetsFile) * kElementSize + offsetsTail

\* ------------------------------------------------- IndexFile, write mode

\* defective variant of WriteAllOp: m_elements.clear() left out
WriteAllDup(elements, file) ==
  IF elements = <<>> THEN [elements |-> elements, file |-> file]
  ELSE [elements |-> elements, file |-> file \o elements]

\* IndexFile::WriteAll on (m_elements, file): [elements, file]
WriteAllOp(elements, file) ==
  IF elements = <<>> THEN [elements |-> elements, file |-> file]
  ELSE [elements |-> <<>>, file |-> file \o elements]

\* defective variant of AddOp: the flush at kFlushCount left out
AddNoFlush(elements, file, k, v) ==
  [elements |-> Append(elements, <<k, v>>), file |-> file]

\* IndexFile::Add on (m_elements, file): [elements, file]
AddOp(elements, file, k, v) ==
  LET w == IF Len(elements) > kFlushCount
           THEN WriteAllOp(elements, file)
           ELSE [elements |-> elements, file |-> file]
  IN  [elements |-> Append(w.elements, <<k, v>>), file |-> w.file]

Add(k, v) ==
  /\ phase = "write"
  /\ nCalls < MaxCalls
  /\ LET r == AddOp(m_elements, offsetsFile, k, v)
     IN  /\ m_elements' = r.elements
         /\ offsetsFile' = r.file
  /\ added' = Append(added, <<k, v>>)
  /\ nCalls' = nCalls + 1
  /\ lastOp' = "Add"
  /\ lastKey' = k
  /\ UNCHANGED pointVars
  /\ UNCHANGED <<phase, m_fileSize, offsetsTail, m_storage, m_data, m_preload,
                 written, closedAfter, stopFrom, ret, value, visited>>

WriteAll ==
  /\ phase = "write"
  /\ LET r == WriteAllOp(m_elements, offsetsFile)
     IN  /\ m_elements' = r.elements
         /\ offsetsFile' = r.file
  /\ lastOp' = "WriteAll"
  /\ UNCHANGED pointVars
  /\ UNCHANGED <<phase, m_fileSize, offsetsTail, m_storage, m_data, m_preload,
                 histVars, callVars, value>>

\* ~IndexFile / ~OSMElementCache in write mode: neither class declares a
\* destructor, so the members are destroyed as they are: the vector m_elements
\* and the scratch m_data are dropped, the FileWriters close their files.
Destroy ==
  /\ phase = "write"
  /\ phase' = "closed"
  /\ m_elements' = <<>>
  /\ m_data' = <<>>
  /\ closedAfter' = lastOp
  /\ lastOp' = "dtor"
  /\ UNCHANGED pointVars
  /\ UNCHANGED <<m_fileSize, fileVars, m_preload, added, written, nCalls,
                 callVars, value>>

\* The environment cuts the closed index file to n bytes.
TailChoices == {0, 1, kElementSize - 1}

Truncate(n) ==
  /\ phase = "closed"
  /\ n < OffsetsFileSize
  /\ offsetsFile' = SubSeq(offsetsFile, 1, n \div kElementSize)
  /\ offsetsTail' = n % kElementSize
  /\ lastOp' = "truncate"
  /\ UNCHANGED pointVars
  /\ UNCHANGED <<phase, m_elements, m_fileSize, m_storage, m_data, m_preload,
                 histVars, callVars, value>>

\* -------------------------------------------------- IndexFile, read mode

\* defective variant of CompElemElem: the values compared with >
CompElemElemValueDesc(r1, r2) ==
  IF r1[1] = r2[1] THEN r1[2] > r2[2] ELSE r1[1] < r2[1]

\* ElementComparator::operator()(TElement const &, TElement const &)
CompElemElem(r1, r2) ==
  IF r1[1] = r2[1] THEN r1[2] < r2[2] ELSE r1[1] < r2[1]

\* defective variant of CompElemKey: <= for <
CompElemKeyLeq(r1, k) == r1[1] <= k

\* ElementComparator::operator()(TElement const &, TKey)
CompElemKey(r1, k) == r1[1] < k

\* ElementComparator::operator()(TKey, TElement const &)
CompKeyElem(k, r2) == k < r2[1]

\* sort(m_elements.begin(), m_elements.end(), ElementComparator()): e is put
\* before the first element of the sorted s that it precedes
RECURSIVE InsertSorted(_, _)
InsertSorted(s, e) ==
  IF s = <<>> THEN <<e>>
  ELSE IF CompElemElem(e, Head(s)) THEN <<e>> \o s
  ELSE <<Head(s)>> \o InsertSorted(Tail(s), e)

\* defective variant of SortElements: the sort left out
SortElementsNone(s) == s

RECURSIVE SortElements(_)
SortElements(s) ==
  IF s = <<>> THEN <<>>
  ELSE InsertSorted(SortElements(SubSeq(s, 1, Len(s) - 1)), s[Len(s)])

\* defective variant of ReadAllOp: the CHECK_EQUAL on the file size left out
ReadAllNoCheck(records, size) ==
  IF size = 0
  THEN [elements |-> <<>>, fileSize |-> size, abort |-> FALSE]
  ELSE [elements |-> SortElements(records), fileSize |-> size, abort |-> FALSE]

\* IndexFile::ReadAll on a file of `records` whole records and `size` bytes:
\* [elements, fileSize, abort]
ReadAllOp(records, size) ==
  IF size = 0
  THEN [elements |-> <<>>, fileSize |-> size, abort |-> FALSE]
  ELSE IF size % kElementSize # 0
  THEN [elements |-> <<>>, fileSize |-> size, abort |-> TRUE]
  ELSE [elements |-> SortElements(records), fileSize |-> size, abort |-> FALSE]

\* lower_bound(first, first + len, key, ElementComparator()) over 1-based s
RECURSIVE LowerBoundFrom(_, _, _, _)
LowerBoundFrom(s, first, len, key) ==
  IF len <= 0 THEN first
  ELSE LET half == len \div 2
           mid  == first + half
       IN  IF CompElemKey(s[mid], key)
           THEN LowerBoundFrom(s, mid + 1, len - half - 1, key)
           ELSE LowerBoundFrom(s, first, half, key)

LowerBound(s, key) == LowerBoundFrom(s, 1, Len(s), key)

\* upper_bound(first, first + len, key, ElementComparator())
RECURSIVE UpperBoundFrom(_, _, _, _)
UpperBoundFrom(s, first, len, key) ==
  IF len <= 0 THEN first
  ELSE LET half == len \div 2
           mid  == first + half
       IN  IF CompKeyElem(key, s[mid])
           THEN UpperBoundFrom(s, first, half, key)
           ELSE UpperBoundFrom(s, mid + 1, len - half - 1, key)

UpperBound(s, key) == UpperBoundFrom(s, 1, Len(s), key)

\* defective variant of GetValueByKeyOp: (*it).first == key left out
GetValueByKeyNoKeyCheck(elements, key, old) ==
  LET it == LowerBound(elements, key)
  IN  IF it # Len(elements) + 1
      THEN [ret |-> TRUE, value |-> elements[it][2]]
      ELSE [ret |-> FALSE, value |-> old]

\* IndexFile::GetValueByKey: [ret, value], value being the caller's value
\* when ret is FALSE
GetValueByKeyOp(elements, key, old) ==
  LET it == LowerBound(elements, key)
  IN  IF it # Len(elements) + 1 /\ elements[it][1] = key
      THEN [ret |-> TRUE, value |-> elements[it][2]]
      ELSE [ret |-> FALSE, value |-> old]

\* the visitor of the model: toDo(v) returns true (stop) when v >= from
ToDo(v, from) == v >= from

\* defective variant of VisitRange: the result of toDo ignored
RECURSIVE VisitRangeNoStop(_, _, _, _)
VisitRangeNoStop(s, first, last, from) ==
  IF first = last THEN <<>>
  ELSE <<s[first][2]>> \o VisitRangeNoStop(s, first + 1, last, from)

\* the loop of IndexFile::ForEachByKey over [first, last): the values toDo
\* was invoked on
RECURSIVE VisitRange(_, _, _, _)
VisitRange(s, first, last, from) ==
  IF first = last THEN <<>>
  ELSE IF ToDo(s[first][2], from) THEN <<s[first][2]>>
  ELSE <<s[first][2]>> \o VisitRange(s, first + 1, last, from)

ForEachByKeyOp(elements, k, from) ==
  VisitRange(elements, LowerBound(elements, k), UpperBound(elements, k), from)

\* IndexFile(name) / OSMElementCache(name, preload) in read mode, with
\* InitStorage<Read>
InitStorage(preload, storage) == IF preload THEN storage ELSE <<>>

\* defective variant of Open: the constructor loads the offsets
OpenLoading(preload) ==
  /\ phase = "closed"
  /\ phase' = "read"
  /\ m_elements' = SortElements(offsetsFile)
  /\ m_fileSize' = 0
  /\ m_preload' = preload
  /\ m_data' = InitStorage(preload, m_storage)
  /\ lastOp' = "open"
  /\ UNCHANGED pointVars
  /\ UNCHANGED <<fileVars, histVars, callVars, value>>

Open(preload) ==
  /\ phase = "closed"
  /\ phase' = "read"
  /\ m_elements' = <<>>
  /\ m_fileSize' = 0
  /\ m_preload' = preload
  /\ m_data' = InitStorage(preload, m_storage)
  /\ lastOp' = "open"
  /\ UNCHANGED pointVars
  /\ UNCHANGED <<fileVars, histVars, callVars, value>>

ReadAll ==
  /\ phase = "read"
  /\ LET r == ReadAllOp(offsetsFile, OffsetsFileSize)
     IN  /\ m_elements' = r.elements
         /\ m_fileSize' = r.fileSize
         /\ phase' = IF r.abort THEN "aborted" ELSE "read"
  /\ lastOp' = "ReadAll"
  /\ lastKey' = 0
  /\ stopFrom' = 0
  /\ ret' = FALSE
  /\ visited' = <<>>
  /\ UNCHANGED pointVars
  /\ UNCHANGED <<fileVars, m_data, m_preload, histVars, value>>

\* the caller passes a variable it has just set to 0, as OSMElementCache::Read
\* does (uint64_t pos = 0)
GetValueByKey(key) ==
  /\ phase = "read"
  /\ LET r == GetValueByKeyOp(m_elements, key, 0)
     IN  /\ ret' = r.ret
         /\ value' = r.value
  /\ lastOp' = "GetValueByKey"
  /\ lastKey' = key
  /\ stopFrom' = 0
  /\ visited' = <<>>
  /\ UNCHANGED pointVars
  /\ UNCHANGED <<phase, m_elements, m_fileSize, fileVars, m_data, m_preload,
                 histVars>>

ForEachByKey(k, from) ==
  /\ phase = "read"
  /\ visited' = ForEachByKeyOp(m_elements, k, from)
  /\ lastOp' = "ForEachByKey"
  /\ lastKey' = k
  /\ stopFrom' = from
  /\ ret' = FALSE
  /\ UNCHANGED pointVars
  /\ UNCHANGED <<phase, m_elements, m_fileSize, fileVars, m_data, m_preload,
                 histVars, value>>

\* ----------------------------------------------------- OSMElementCache

\* the byte string numbered n: the n bytes 16n+1, .., 16n+n (what
\* value.Write(w) leaves in m_data and value.Read(reader) gets back)
PayloadOf(n) == [i \in 1..n |-> 16 * n + i]
Payloads == {PayloadOf(n) : n \in 0..MaxPayload}

\* the caller's value before any Read: no payload has the byte 0
NoValue == <<0>>

\* a uint32_t as its sizeof(uint32_t) bytes in memory (little-endian host)
EncodeU32(n) == [i \in 1..kSizeofU32 |-> (n \div (256 ^ (i - 1))) % 256]

\* the uint32_t whose bytes in memory are b
RECURSIVE DecodeU32From(_, _)
DecodeU32From(b, i) ==
  IF i > kSizeofU32 THEN 0 ELSE b[i] + 256 * DecodeU32From(b, i + 1)

DecodeU32(b) == DecodeU32From(b, 1)

\* n bytes of s from byte position pos (0-based), as FileReader::Read(pos, p, n)
\* and a read of n bytes at data() + pos get them
BytesAt(s, pos, n) == SubSeq(s, pos + 1, pos + n)

\* defective variant of WriteOp: the size written after the payload
WriteOpSizeLast(storage, payload) ==
  [storage |-> storage \o payload \o EncodeU32(Len(payload)),
   data    |-> payload]

\* the payload-file part of OSMElementCache::Write: [storage, data]
WriteOp(storage, payload) ==
  LET data == payload
      \* static_cast<uint32_t>(m_data.size()): exact, the lengths of the
      \* model being far below 2^32
      sz   == Len(data)
  IN  [storage |-> storage \o EncodeU32(sz) \o SubSeq(data, 1, sz),
       data    |-> data]

\* defective variant of ReadOp: with preload, the payload taken at pos instead
\* of pos + sizeof(uint32_t)
ReadOpPreloadNoSkip(preload, data, elements, storage, id, old) ==
  LET found == GetValueByKeyOp(elements, id, 0)
      pos   == found.value
  IN  IF ~found.ret THEN [ret |-> FALSE, value |-> old, data |-> data]
      ELSE IF preload
      THEN LET valueSize == DecodeU32(BytesAt(data, pos, kSizeofU32))
           IN  [ret |-> TRUE, value |-> BytesAt(data, pos, valueSize),
                data |-> data]
      ELSE LET valueSize == DecodeU32(BytesAt(storage, pos, kSizeofU32))
               buf == BytesAt(storage, pos + kSizeofU32, valueSize)
           IN  [ret |-> TRUE, value |-> BytesAt(buf, 0, valueSize), data |-> buf]

\* defective variant of ReadOp: without preload, the payload read at pos
\* instead of pos + sizeof(valueSize)
ReadOpDiskNoSkip(preload, data, elements, storage, id, old) ==
  LET found == GetValueByKeyOp(elements, id, 0)
      pos   == found.value
  IN  IF ~found.ret THEN [ret |-> FALSE, value |-> old, data |-> data]
      ELSE IF preload
      THEN LET valueSize == DecodeU32(BytesAt(data, pos, kSizeofU32))
               offset    == pos + kSizeofU32
           IN  [ret |-> TRUE, value |-> BytesAt(data, offset, valueSize),
                data |-> data]
      ELSE LET valueSize == DecodeU32(BytesAt(storage, pos, kSizeofU32))
               buf == BytesAt(storage, pos, valueSize)
           IN  [ret |-> TRUE, value |-> BytesAt(buf, 0, valueSize), data |-> buf]

\* OSMElementCache::Read: [ret, value, data], value being the caller's value
\* `old` when ret is FALSE
ReadOp(preload, data, elements, storage, id, old) ==
  LET found == GetValueByKeyOp(elements, id, 0)
      pos   == found.value
  IN  IF ~found.ret THEN [ret |-> FALSE, value |-> old, data |-> data]
      ELSE IF preload
      THEN LET valueSize == DecodeU32(BytesAt(data, pos, kSizeofU32))
               offset    == pos + kSizeofU32
           IN  [ret |-> TRUE, value |-> BytesAt(data, offset, valueSize),
                data |-> data]
      ELSE LET valueSize == DecodeU32(BytesAt(storage, pos, kSizeofU32))
               buf == BytesAt(storage, pos + kSizeofU32, valueSize)
           IN  [ret |-> TRUE, value |-> BytesAt(buf, 0, valueSize), data |-> buf]

Write(id, payload) ==
  /\ phase = "write"
  /\ nCalls < MaxCalls
  /\ LET pos == Len(m_storage)
         r   == AddOp(m_elements, offsetsFile, id, pos)
         w   == WriteOp(m_storage, payload)
     IN  /\ m_elements' = r.elements
         /\ offsetsFile' = r.file
         /\ m_storage' = w.storage
         /\ m_data' = w.data
         /\ added' = Append(added, <<id, pos>>)
  /\ written' = Append(written, <<id, payload>>)
  /\ nCalls' = nCalls + 1
  /\ lastOp' = "Write"
  /\ lastKey' = id
  /\ UNCHANGED pointVars
  /\ UNCHANGED <<phase, m_fileSize, offsetsTail, m_preload, closedAfter,
                 stopFrom, ret, visited, value>>

SaveOffsets == WriteAll

LoadOffsets == ReadAll

Read(id) ==
  /\ phase = "read"
  /\ LET r == ReadOp(m_preload, m_data, m_elements, m_storage, id, value)
     IN  /\ ret' = r.ret
         /\ value' = r.value
         /\ m_data' = r.data
  /\ lastOp' = "Read"
  /\ lastKey' = id
  /\ stopFrom' = 0
  /\ visited' = <<>>
  /\ UNCHANGED pointVars
  /\ UNCHANGED <<phase, m_elements, m_fileSize, fileVars, m_preload, histVars>>

\* ------------------------------------------------------------------ Init
InitCommon ==
  /\ phase = "write"
  /\ m_fileSize = 0
  /\ offsetsFile = <<>>
  /\ offsetsTail = 0
  /\ m_storage = <<>>
  /\ m_data = <<>>
  /\ m_preload = FALSE
  /\ written = <<>>
  /\ nCalls = 0
  /\ closedAfter = "none"
  /\ lastOp = "ctor"
  /\ lastKey = 0
  /\ stopFrom = 0
  /\ ret = FALSE
  /\ visited = <<>>
  /\ m_file = <<>>
  /\ m_map = <<>>
  /\ m_processedPoint = 0
  /\ points = <<>>

\* the records of the first n Adds of the flush run: keys cycle through Keys,
\* values through Values
FillRecord(i) == <<1 + (i % 2), i % (MaxValue + 1)>>
Fill(n) == [i \in 1..n |-> FillRecord(i)]

\* A write-mode IndexFile either just constructed, or kFlushCount - FlushSlack
\* Adds into its life (no flush has happened yet: the buffer is within
\* kFlushCount).
InitFlush ==
  /\ InitCommon
  /\ strategy = "none"
  /\ value = 0
  /\ \E n \in {0, kFlushCount - FlushSlack} :
       /\ m_elements = Fill(n)
       /\ added = Fill(n)

NextFlush ==
  \/ \E k \in Keys, v \in Values : Add(k, v)
  \/ WriteAll

SpecFlush == InitFlush /\ [][NextFlush]_vars

\* ------------------------------------------------ IndexFile on its own
InitIndex ==
  /\ InitCommon
  /\ strategy = "none"
  /\ value = 0
  /\ m_elements = <<>>
  /\ added = <<>>

NextIndex ==
  \/ \E k \in Keys, v \in Values : Add(k, v)
  \/ WriteAll
  \/ Destroy
  \/ Open(FALSE)
  \/ ReadAll
  \/ \E k \in Probes : GetValueByKey(k)
  \/ \E k \in Probes, from \in 0..(MaxValue + 1) : ForEachByKey(k, from)

SpecIndex == InitIndex /\ [][NextIndex]_vars

\* ------------------------------ IndexFile whose file is cut before reading
NextDamage ==
  \/ \E k \in Keys, v \in Values : Add(k, v)
  \/ WriteAll
  \/ Destroy
  \/ \E q \in 0..MaxCalls, t \in TailChoices : Truncate(q * kElementSize + t)
  \/ Open(FALSE)
  \/ ReadAll
  \/ \E k \in Probes : GetValueByKey(k)

SpecDamage == InitIndex /\ [][NextDamage]_vars

\* ---------------------------------- OSMElementCache, written then read
Init ==
  /\ InitCommon
  /\ strategy = "none"
  /\ value = NoValue
  /\ m_elements = <<>>
  /\ added = <<>>

Next ==
  \/ \E id \in Ids, payload \in Payloads : Write(id, payload)
  \/ SaveOffsets
  \/ Destroy
  \/ \E preload \in BOOLEAN : Open(preload)
  \/ LoadOffsets
  \/ \E id \in IdProbes : Read(id)

Spec == Init /\ [][Next]_vars

\* ================================================== point storages
\* A coordinate passed to AddPoint is a double. It is given here by its exact
\* product with kValueOrder, in sign and magnitude:
\*   lat * kValueOrder = (-1)^neg * (hi * 2^16 + lo + half / 2)
\* so that products outside the 32-bit range and products with a fraction
\* are both at hand. A 64-bit integer is the pair <<h, l>> of its value
\* h * 2^16 + l with l in 0..2^16-1 (two's complement: h carries the sign).
kValueOrder == 10000000
WordBase == 2^16

Scaled(neg, hi, lo, half) == [neg |-> neg, hi |-> hi, lo |-> lo, half |-> half]

\* the (lat, lng) passed to AddPoint, as products with kValueOrder:
\*   (0.5, -0.5)              both truncate to zero
\*   (1.5, 0) and (0, -1.5)   one of the two truncates to zero
\*   (-2^31 - 0.5, 2^31 - 0.5) the least and the greatest 32-bit value
\*   (2^31, 0)                latitude above the 32-bit range
\*   (1, -2^31 - 1)           longitude below the 32-bit range
CoordPairs ==
  { <<Scaled(FALSE, 0, 0, 1),     Scaled(TRUE, 0, 0, 1)>>,
    <<Scaled(FALSE, 0, 1, 1),     Scaled(FALSE, 0, 0, 0)>>,
    <<Scaled(FALSE, 0, 0, 0),     Scaled(TRUE, 0, 1, 1)>>,
    <<Scaled(TRUE, 32768, 0, 1),  Scaled(FALSE, 32767, 65535, 1)>>,
    <<Scaled(FALSE, 32768, 0, 0), Scaled(FALSE, 0, 0, 0)>>,
    <<Scaled(FALSE, 0, 1, 0),     Scaled(TRUE, 32768, 1, 0)>> }

\* the node ids passed to AddPoint, and those passed to GetPoint: the same
\* and one above them all
PointIds    == {0, 1, 2}
PointProbes == {0, 1, 2, 3}

Strategies == {"RawFile", "RawMem", "MapFile"}

\* the caller's lat and lng before GetPoint is called
NoPoint == <<>>

\* defective variant of ToInt64: rounds down instead of towards zero
ToInt64Floor(c) ==
  IF ~c.neg THEN <<c.hi, c.lo>>
  ELSE IF c.half = 1 THEN <<-c.hi - 1, WordBase - c.lo - 1>>
  ELSE IF c.lo = 0 THEN <<-c.hi, 0>>
  ELSE <<-c.hi - 1, WordBase - c.lo>>

\* int64_t const lat64 = lat * kValueOrder: the conversion of a double to
\* int64_t drops the fraction (rounds towards zero)
ToInt64(c) ==
  IF ~c.neg \/ (c.hi = 0 /\ c.lo = 0) THEN <<c.hi, c.lo>>
  ELSE IF c.lo = 0 THEN <<-c.hi, 0>>
  ELSE <<-c.hi - 1, WordBase - c.lo>>

\* static_cast<int32_t>(lat64): the low 32 bits, read as two's complement
CastInt32(v) ==
  (((v[1] + WordBase \div 2) % WordBase) - WordBase \div 2) * WordBase + v[2]

\* static_cast<int64_t>(ll.lat)
CastInt64(x) == <<x \div WordBase, x % WordBase>>

\* defective variant of EncodePoint: the check of the longitude left out
EncodePointLatOnly(lat, lng) ==
  LET lat64 == ToInt64(lat)
      lng64 == ToInt64(lng)
  IN  [ll |-> <<CastInt32(lat64), CastInt32(lng64)>>,
       ok |-> CastInt64(CastInt32(lat64)) = lat64]

\* the conversion at the head of every AddPoint: the LatLon computed, and
\* whether both CHECK_EQUALs pass
EncodePoint(lat, lng) ==
  LET lat64 == ToInt64(lat)
      lng64 == ToInt64(lng)
  IN  [ll |-> <<CastInt32(lat64), CastInt32(lng64)>>,
       ok |-> /\ CastInt64(CastInt32(lat64)) = lat64
              /\ CastInt64(CastInt32(lng64)) = lng64]

\* lat = static_cast<double>(ll.lat) / kValueOrder, as the fraction
\* <<numerator, denominator>>
DecodeCoord(x) == <<x, kValueOrder>>

\* a LatLon of zero bytes
ZeroLatLon == <<0, 0>>

\* A dense array of LatLon is held as the sequence of its elements 0..n-1 up
\* to the last one stored; element id is at index id + 1. StoreAt assigns
\* element id: in RawFilePointStorage it is Seek(id * sizeof(ll)) and Write
\* (the file system fills a gap before the record with zero bytes), in
\* RawMemPointStorage it is m_data[id] = ll (the vector is created zeroed).
StoreAt(seq, id, ll) ==
  LET n == IF Len(seq) > id + 1 THEN Len(seq) ELSE id + 1
  IN  [i \in 1..n |-> IF i = id + 1 THEN ll
                      ELSE IF i <= Len(seq) THEN seq[i] ELSE ZeroLatLon]

\* what m_file.Read delivers from a position at or beyond the end of the
\* file
ReadPastEnd == ZeroLatLon

\* m_file.Read(id * sizeof(ll), &ll, sizeof(ll)) in RawFilePointStorage
ReadLatLon(file, id) == IF id < Len(file) THEN file[id + 1] ELSE ReadPastEnd

\* m_data[id] in RawMemPointStorage: the vector has 0xFFFFFFFF elements, all
\* zero but those stored
ElementAt(data, id) == IF id < Len(data) THEN data[id + 1] ELSE ZeroLatLon

\* ------------------------------------------------- RawFilePointStorage
\* defective variant of RawFileAddPointOp: seeks one record too far
RawFileAddPointShifted(file, id, lat, lng) ==
  LET e == EncodePoint(lat, lng)
  IN  IF ~e.ok THEN [file |-> file, abort |-> TRUE]
      ELSE [file |-> StoreAt(file, id + 1, e.ll), abort |-> FALSE]

\* RawFilePointStorage::AddPoint on the file: [file, abort]
RawFileAddPointOp(file, id, lat, lng) ==
  LET e == EncodePoint(lat, lng)
  IN  IF ~e.ok THEN [file |-> file, abort |-> TRUE]
      ELSE [file |-> StoreAt(file, id, e.ll), abort |-> FALSE]

\* defective variant of RawFileGetPointOp: && in place of ||
RawFileGetPointAnd(file, id) ==
  LET ll == ReadLatLon(file, id)
  IN  IF ll[1] # 0 /\ ll[2] # 0
      THEN [ret |-> TRUE, value |-> <<DecodeCoord(ll[1]), DecodeCoord(ll[2])>>]
      ELSE [ret |-> FALSE, value |-> NoPoint]

\* RawFilePointStorage::GetPoint: [ret, value]
RawFileGetPointOp(file, id) ==
  LET ll == ReadLatLon(file, id)
  IN  IF ll[1] # 0 \/ ll[2] # 0
      THEN [ret |-> TRUE, value |-> <<DecodeCoord(ll[1]), DecodeCoord(ll[2])>>]
      ELSE [ret |-> FALSE, value |-> NoPoint]

\* -------------------------------------------------- RawMemPointStorage
\* defective variant of RawMemAddPointOp: an element already set is kept
RawMemAddPointKeep(data, id, lat, lng) ==
  LET e == EncodePoint(lat, lng)
  IN  IF ElementAt(data, id) # ZeroLatLon THEN [data |-> data, abort |-> ~e.ok]
      ELSE [data |-> StoreAt(data, id, e.ll), abort |-> ~e.ok]

\* RawMemPointStorage::AddPoint on m_data: [data, abort]. ll is a reference
\* to m_data[id], assigned before the CHECK_EQUALs.
RawMemAddPointOp(data, id, lat, lng) ==
  LET e == EncodePoint(lat, lng)
  IN  [data |-> StoreAt(data, id, e.ll), abort |-> ~e.ok]

\* RawMemPointStorage::GetPoint: [ret, value]
RawMemGetPointOp(data, id) ==
  LET ll == ElementAt(data, id)
  IN  IF ll[1] # 0 \/ ll[2] # 0
      THEN [ret |-> TRUE, value |-> <<DecodeCoord(ll[1]), DecodeCoord(ll[2])>>]
      ELSE [ret |-> FALSE, value |-> NoPoint]

\* ------------------------------------------------- MapFilePointStorage
\* MapFilePointStorage::AddPoint on the file of LatLonPos records
\* <<pos, lat, lon>>: [file, abort]
MapFileAddPointOp(file, id, lat, lng) ==
  LET e == EncodePoint(lat, lng)
  IN  IF ~e.ok THEN [file |-> file, abort |-> TRUE]
      ELSE [file |-> Append(file, <<id, e.ll[1], e.ll[2]>>), abort |-> FALSE]

\* defective variant of Emplace: the value of a key already present is
\* replaced
EmplaceOverwrite(map, ll) ==
  [k \in (DOMAIN map) \cup {ll[1]} |->
     IF k = ll[1] THEN <<ll[2], ll[3]>> ELSE map[k]]

\* m_map.emplace(make_pair(ll.pos, make_pair(ll.lat, ll.lon))): no effect
\* when the key is already in the map
Emplace(map, ll) ==
  IF ll[1] \in DOMAIN map THEN map
  ELSE [k \in (DOMAIN map) \cup {ll[1]} |->
          IF k = ll[1] THEN <<ll[2], ll[3]>> ELSE map[k]]

\* the loop of MapFilePointStorage::InitStorage<Read> from record pos on
RECURSIVE ReadRecordsFrom(_, _, _)
ReadRecordsFrom(file, pos, map) ==
  IF pos > Len(file) THEN map
  ELSE ReadRecordsFrom(file, pos + 1, Emplace(map, file[pos]))

\* MapFilePointStorage::GetPoint: [ret, value]
MapFileGetPointOp(map, id) ==
  IF id \notin DOMAIN map THEN [ret |-> FALSE, value |-> NoPoint]
  ELSE [ret |-> TRUE,
        value |-> <<DecodeCoord(map[id][1]), DecodeCoord(map[id][2])>>]

\* ------------------------------------------------------------- actions
cacheVars == <<m_elements, m_fileSize, offsetsFile, offsetsTail, m_storage,
               m_preload, added, written, closedAfter, stopFrom, visited>>

AddPoint(id, lat, lng) ==
  /\ phase = "write"
  /\ nCalls < MaxCalls
  /\ LET r == CASE strategy = "RawFile" ->
                     LET w == RawFileAddPointOp(m_file, id, lat, lng)
                     IN  [file |-> w.file, data |-> m_data, abort |-> w.abort]
                [] strategy = "RawMem" ->
                     LET w == RawMemAddPointOp(m_data, id, lat, lng)
                     IN  [file |-> m_file, data |-> w.data, abort |-> w.abort]
                [] strategy = "MapFile" ->
                     LET w == MapFileAddPointOp(m_file, id, lat, lng)
                     IN  [file |-> w.file, data |-> m_data, abort |-> w.abort]
     IN  /\ m_file' = r.file
         /\ m_data' = r.data
         /\ phase' = IF r.abort THEN "aborted" ELSE "write"
         /\ m_processedPoint' =
              IF r.abort THEN m_processedPoint ELSE m_processedPoint + 1
  /\ points' = Append(points, <<id, lat, lng>>)
  /\ nCalls' = nCalls + 1
  /\ lastOp' = "AddPoint"
  /\ lastKey' = id
  /\ UNCHANGED <<cacheVars, strategy, m_map, ret, value>>

\* the storage's destructor in write mode: ~RawMemPointStorage writes all of
\* m_data to the file (DoneStorage<Write>); the other two only close it
DestroyPoints ==
  /\ phase = "write"
  /\ phase' = "closed"
  /\ m_file' = IF strategy = "RawMem" THEN m_data ELSE m_file
  /\ m_data' = <<>>
  /\ lastOp' = "dtor"
  /\ UNCHANGED <<cacheVars, strategy, m_map, m_processedPoint, points,
                 nCalls, lastKey, ret, value>>

\* the storage's constructor in read mode: RawMemPointStorage reads the file
\* into m_data, MapFilePointStorage builds m_map (InitStorage<Read>)
OpenPoints ==
  /\ phase = "closed"
  /\ phase' = "read"
  /\ m_data' = IF strategy = "RawMem" THEN m_file ELSE <<>>
  /\ m_map' = IF strategy = "MapFile" THEN ReadRecordsFrom(m_file, 1, <<>>)
              ELSE <<>>
  /\ m_processedPoint' = 0
  /\ lastOp' = "open"
  /\ UNCHANGED <<cacheVars, strategy, m_file, points, nCalls, lastKey, ret,
                 value>>

GetPoint(id) ==
  /\ phase = "read"
  /\ LET r == CASE strategy = "RawFile" -> RawFileGetPointOp(m_file, id)
                [] strategy = "RawMem"  -> RawMemGetPointOp(m_data, id)
                [] strategy = "MapFile" -> MapFileGetPointOp(m_map, id)
     IN  /\ ret' = r.ret
         /\ value' = r.value
  /\ lastOp' = "GetPoint"
  /\ lastKey' = id
  /\ UNCHANGED <<cacheVars, phase, m_data, strategy, m_file, m_map,
                 m_processedPoint, points, nCalls>>

InitPoints ==
  /\ InitCommon
  /\ strategy \in Strategies
  /\ m_elements = <<>>
  /\ added = <<>>
  /\ value = NoPoint

NextPoints ==
  \/ \E id \in PointIds, c \in CoordPairs : AddPoint(id, c[1], c[2])
  \/ DestroyPoints
  \/ OpenPoints
  \/ \E id \in PointProbes : GetPoint(id)

SpecPoints == InitPoints /\ [][NextPoints]_vars

\* ================================ OSMElementCache::Write by payload size
\* Write as its arithmetic on sizes sees it: the payload is given by its
\* length alone, a size_t held as the pair <<h, l>> of h * 2^16 + l; the
\* payload file is the sequence of its records, each the written size prefix
\* and the number of payload bytes that follow it.

\* numeric_limits<uint32_t>::max()
U32Max == <<WordBase - 1, WordBase - 1>>

\* the payload lengths passed: 0, 2, 2^32 - 2, 2^32 - 1 and 2^32
Sizes ==
  { <<0, 0>>, <<0, 2>>, <<WordBase - 1, WordBase - 2>>,
    <<WordBase - 1, WordBase - 1>>, <<WordBase, 0>> }

SizeLess(a, b) == a[1] < b[1] \/ (a[1] = b[1] /\ a[2] < b[2])

SizeAdd(a, b) ==
  <<a[1] + b[1] + (a[2] + b[2]) \div WordBase, (a[2] + b[2]) % WordBase>>

\* ASSERT_LESS(a, b) passes; the Write is abandoned when it does not
AssertLess(a, b) == SizeLess(a, b)

\* static_cast<uint32_t>(m_data.size())
CastU32(a) == <<a[1] % WordBase, a[2]>>

\* m_storage.Pos(): the bytes of the records written so far
RECURSIVE StoragePos(_)
StoragePos(records) ==
  IF records = <<>> THEN <<0, 0>>
  ELSE SizeAdd(StoragePos(SubSeq(records, 1, Len(records) - 1)),
               SizeAdd(<<0, kSizeofU32>>, records[Len(records)].bytes))

\* OSMElementCache::Write of a payload of the given size:
\* [elements, file, storage, abort]
WriteSizedOp(elements, file, storage, id, size) ==
  LET r  == AddOp(elements, file, id, StoragePos(storage))
      sz == CastU32(size)
  IN  IF ~AssertLess(size, U32Max)
      THEN [elements |-> r.elements, file |-> r.file, storage |-> storage,
            abort |-> TRUE]
      ELSE [elements |-> r.elements, file |-> r.file,
            storage |-> Append(storage, [size |-> sz, bytes |-> sz]),
            abort |-> FALSE]

WriteSized(id, size) ==
  /\ phase = "write"
  /\ nCalls < MaxCalls
  /\ LET r == WriteSizedOp(m_elements, offsetsFile, m_storage, id, size)
     IN  /\ m_elements' = r.elements
         /\ offsetsFile' = r.file
         /\ m_storage' = r.storage
         /\ phase' = IF r.abort THEN "aborted" ELSE "write"
  /\ m_data' = size
  /\ added' = Append(added, <<id, StoragePos(m_storage)>>)
  /\ written' = Append(written, <<id, size>>)
  /\ nCalls' = nCalls + 1
  /\ lastOp' = "WriteSized"
  /\ lastKey' = id
  /\ UNCHANGED pointVars
  /\ UNCHANGED <<m_fileSize, offsetsTail, m_preload, closedAfter, stopFrom,
                 ret, value, visited>>

NextSize ==
  \/ \E id \in Ids, size \in Sizes : WriteSized(id, size)
  \/ SaveOffsets

SpecSize == Init /\ [][NextSize]_vars

\* ============================================================ properties

\* the writer was destroyed right after WriteAll/SaveOffsets
SavedBeforeClose == closedAfter = "WriteAll"

\* ReadAll/LoadOffsets has completed on the reader (m_fileSize is set by
\* ReadAll alone)
Loaded == phase = "read" /\ m_fileSize = OffsetsFileSize

\* the ids passed to Write are pairwise distinct
DistinctIds ==
  \A i, j \in 1..Len(written) : written[i][1] = written[j][1] => i = j

\* the i-th Write is the first one for its id
FirstWriteOfId(i) == \A j \in 1..(i - 1) : written[j][1] # written[i][1]

\* C1. Payload round-trip: after Writes with pairwise distinct ids,
\* SaveOffsets, reopening in read mode and LoadOffsets, Read(id_i) returns
\* true and yields exactly the bytes of payload_i.
PayloadRoundTrip ==
  (Loaded /\ SavedBeforeClose /\ DistinctIds /\ lastOp = "Read") =>
    \A i \in 1..Len(written) :
      written[i][1] = lastKey => (ret /\ value = written[i][2])

\* three payloads under ids written in descending order, the second one, not
\* empty, read back from disk
PayloadRoundTripWitness ==
  /\ Loaded /\ SavedBeforeClose /\ DistinctIds /\ lastOp = "Read"
  /\ ~m_preload
  /\ Len(written) = 3
  /\ written[1][1] > written[2][1] /\ written[2][1] > written[3][1]
  /\ lastKey = written[2][1]
  /\ written[2][2] # <<>>
  /\ ret /\ value = written[2][2]

\* C2. Destruction flush: once a write-mode cache is destroyed, every index
\* entry added by Write is in the index file on disk, SaveOffsets called or
\* not.
DestructionFlush ==
  phase = "closed" => offsetsFile = added

\* C3. Duplicate ids: after Write(id, A) and a later Write(id, B),
\* SaveOffsets, reopen and LoadOffsets, Read(id) returns A, the payload of
\* the earliest Write for that id.
DuplicateIdsReadEarliest ==
  (Loaded /\ SavedBeforeClose /\ lastOp = "Read") =>
    \A i, j \in 1..Len(written) :
      (/\ i < j
       /\ written[i][1] = lastKey
       /\ written[j][1] = lastKey
       /\ FirstWriteOfId(i)) => (ret /\ value = written[i][2])

\* Write(id, A), a Write of another id, Write(id, B) with B # A, and Read(id)
\* has returned A
DuplicateIdsWitness ==
  /\ Loaded /\ SavedBeforeClose /\ lastOp = "Read"
  /\ Len(written) = 3
  /\ written[1][1] = lastKey /\ written[3][1] = lastKey
  /\ written[2][1] # lastKey
  /\ written[1][2] # written[3][2]
  /\ ret /\ value = written[1][2]

\* the values added under key k
AddedValues(k) == {added[i][2] : i \in {n \in 1..Len(added) : added[n][1] = k}}

\* C4. Index lookup: after Adds, a final WriteAll, reopen and ReadAll,
\* GetValueByKey(k) returns true with the smallest value added under k when
\* there is one, and false when there is none.
GetValueByKeySmallest ==
  (Loaded /\ SavedBeforeClose /\ lastOp = "GetValueByKey") =>
    IF AddedValues(lastKey) = {}
    THEN ~ret
    ELSE /\ ret
         /\ value \in AddedValues(lastKey)
         /\ \A v \in AddedValues(lastKey) : value <= v

\* the key was added with a larger value first and a smaller one later, with
\* another key in between, and the lookup has returned the smaller
GetValueByKeyWitness ==
  /\ Loaded /\ SavedBeforeClose /\ lastOp = "GetValueByKey"
  /\ Len(added) = 3
  /\ added[1][1] = lastKey /\ added[3][1] = lastKey /\ added[2][1] # lastKey
  /\ added[1][2] > added[3][2]
  /\ ret /\ value = added[3][2]

\* the number of records <<k, v>> in the index file
CountInFile(k, v) ==
  Cardinality({i \in 1..Len(offsetsFile) : offsetsFile[i] = <<k, v>>})

\* the values of the file's records with key k, ascending, one per record
RECURSIVE AscendingValuesFrom(_, _)
AscendingValuesFrom(k, v) ==
  IF v > MaxValue THEN <<>>
  ELSE [i \in 1..CountInFile(k, v) |-> v] \o AscendingValuesFrom(k, v + 1)

\* s up to and including its first element on which the visitor returns true
UpToFirstStop(s, from) ==
  LET stops == {i \in 1..Len(s) : s[i] >= from}
  IN  IF stops = {} THEN s
      ELSE SubSeq(s, 1, CHOOSE i \in stops : \A j \in stops : i <= j)

\* C5. Index range visit: after ReadAll, ForEachByKey(k, visitor) invokes the
\* visitor on the values of the entries with key k, ascending, once per
\* entry, on no other entry's value, and on none after the first invocation
\* that returned the stop signal.
ForEachByKeyVisits ==
  (Loaded /\ lastOp = "ForEachByKey") =>
    visited = UpToFirstStop(AscendingValuesFrom(lastKey, 0), stopFrom)

\* three entries under the key, one of them twice, added in descending order;
\* the visitor stopped at the second invocation
ForEachByKeyWitness ==
  /\ Loaded /\ lastOp = "ForEachByKey"
  /\ Len(offsetsFile) = 3
  /\ \A i \in 1..3 : offsetsFile[i][1] = lastKey
  /\ offsetsFile[1][2] > offsetsFile[3][2]
  /\ Len(visited) = 2
  /\ visited[1] < visited[2]
  /\ visited[2] >= stopFrom

\* C6. Flush consistency: in a write-mode IndexFile the file's records
\* followed by the buffer's are exactly the pairs passed to Add, in order;
\* when WriteAll was the last call the file holds them all and the buffer is
\* empty.
FlushConsistency ==
  phase = "write" =>
    /\ offsetsFile \o m_elements = added
    /\ lastOp = "WriteAll" => (m_elements = <<>> /\ offsetsFile = added)

\* more than kFlushCount Adds, one of which flushed by itself, then WriteAll
FlushConsistencyWitness ==
  /\ phase = "write" /\ lastOp = "WriteAll"
  /\ Len(added) = kFlushCount + 2
  /\ offsetsFile = added /\ m_elements = <<>>

\* C7, as stated. Flush threshold: after every Add the buffer holds no more
\* than kFlushCount entries.
BufferWithinFlushCount ==
  phase = "write" => Len(m_elements) <= kFlushCount

\* C7, amended. An Add that finds more than kFlushCount entries in the buffer
\* writes them to the file and clears the buffer before it appends; any other
\* Add only appends; so after an Add the buffer holds at most
\* kFlushCount + 1 entries.
FlushOnNextAdd ==
  [][(phase = "write" /\ lastOp' = "Add") =>
       /\ Len(m_elements') <= kFlushCount + 1
       /\ IF Len(m_elements) > kFlushCount
          THEN /\ offsetsFile' = offsetsFile \o m_elements
               /\ m_elements' = <<added'[Len(added')]>>
          ELSE /\ offsetsFile' = offsetsFile
               /\ m_elements' = Append(m_elements, added'[Len(added')])]_vars

\* the Add that found kFlushCount + 1 buffered entries has written them
FlushOnNextAddWitness ==
  /\ phase = "write" /\ lastOp = "Add"
  /\ Len(offsetsFile) = kFlushCount + 1
  /\ Len(m_elements) = 1

\* C8. Preload equivalence: a Read on a cache opened with one setting of
\* preload returns the same boolean, and on success the same bytes, as the
\* same Read on a cache just opened on the same files with the other setting,
\* whatever Reads came before.
PreloadEquivalence ==
  (phase = "read" /\ lastOp = "Read") =>
    LET other == ReadOp(~m_preload, InitStorage(~m_preload, m_storage),
                        m_elements, m_storage, lastKey, NoValue)
    IN  /\ ret = other.ret
        /\ ret => value = other.value

\* a preloaded cache has read a payload that is neither empty nor the first
\* of the file
PreloadEquivalenceWitness ==
  /\ Loaded /\ lastOp = "Read" /\ m_preload
  /\ ret /\ value # <<>>
  /\ Len(written) >= 2
  /\ written[1][1] # lastKey

NeverWritten(id) == \A i \in 1..Len(written) : written[i][1] # id

\* C10. Lookup miss: Read(id) for an id never passed to Write returns false
\* without aborting, leaves the caller's value as it was, and leaves every
\* later Read's result as it would have been.
LookupMiss ==
  [][(phase = "read" /\ lastOp' = "Read" /\ NeverWritten(lastKey')) =>
       /\ ~ret'
       /\ phase' = "read"
       /\ value' = value
       /\ \A id \in IdProbes :
            LET before == ReadOp(m_preload, m_data, m_elements, m_storage,
                                 id, value)
                after  == ReadOp(m_preload', m_data', m_elements', m_storage',
                                 id, value')
            IN  before.ret = after.ret /\ before.value = after.value]_vars

\* after LoadOffsets and a successful Read, a Read of an unwritten id that
\* lies between two written ones has returned false, the value still the
\* earlier Read's
LookupMissWitness ==
  /\ Loaded /\ SavedBeforeClose /\ lastOp = "Read"
  /\ NeverWritten(lastKey)
  /\ \E i, j \in 1..Len(written) :
       written[i][1] < lastKey /\ lastKey < written[j][1]
  /\ ~ret
  /\ value # NoValue

\* the byte position of the n-th Write's record: the sizes of the records
\* before it, each a size prefix and the payload
RECURSIVE OffsetOfWrite(_)
OffsetOfWrite(n) ==
  IF n <= 1 THEN 0
  ELSE OffsetOfWrite(n - 1) + kSizeofU32 + Len(written[n - 1][2])

\* C15. Payload layout and offsets: the payload file is, in call order, one
\* record [u32 size][size bytes] per Write; the index value recorded for the
\* n-th Write is the position of its size prefix, the sum of 4 + size over
\* the Writes before it; the recorded offsets grow strictly in call order.
PayloadLayout ==
  /\ Len(m_storage) = OffsetOfWrite(Len(written) + 1)
  /\ \A n \in 1..Len(written) :
       /\ DecodeU32(BytesAt(m_storage, OffsetOfWrite(n), kSizeofU32))
            = Len(written[n][2])
       /\ BytesAt(m_storage, OffsetOfWrite(n) + kSizeofU32, Len(written[n][2]))
            = written[n][2]
  /\ phase = "write" =>
       offsetsFile \o m_elements
         = [n \in 1..Len(written) |-> <<written[n][1], OffsetOfWrite(n)>>]
  /\ phase = "write" =>
       \A n, m \in 1..Len(offsetsFile \o m_elements) :
         n < m => (offsetsFile \o m_elements)[n][2]
                    < (offsetsFile \o m_elements)[m][2]

\* three Writes, the first with an empty payload and the second with a
\* payload of one byte: the third record starts at byte 9
PayloadLayoutWitness ==
  /\ phase = "write" /\ lastOp = "Write"
  /\ Len(written) = 3
  /\ written[1][2] = <<>> /\ Len(written[2][2]) = 1
  /\ (offsetsFile \o m_elements)[3][2] = 9

\* C16. Sorted load: after a ReadAll that completes, and after any lookups
\* that follow it, the in-memory entries are in ascending (key, value) order
\* and are, pair for pair with its multiplicity, the records of the index
\* file.
SortedLoad ==
  Loaded =>
    /\ \A i, j \in 1..Len(m_elements) :
         i < j => \/ m_elements[i][1] < m_elements[j][1]
                  \/ /\ m_elements[i][1] = m_elements[j][1]
                     /\ m_elements[i][2] <= m_elements[j][2]
    /\ Len(m_elements) = Len(offsetsFile)
    /\ \A k \in Keys, v \in Values :
         Cardinality({i \in 1..Len(m_elements) : m_elements[i] = <<k, v>>})
           = CountInFile(k, v)

\* a file of three records, out of order and with one pair twice, loaded and
\* then looked up
SortedLoadWitness ==
  /\ Loaded /\ lastOp \in {"GetValueByKey", "ForEachByKey"}
  /\ Len(offsetsFile) = 3
  /\ offsetsFile[1] = offsetsFile[3]
  /\ CompElemElem(offsetsFile[2], offsetsFile[1])
  /\ m_elements # offsetsFile

\* some record of the index file has the key id
InOffsetsFile(id) == \E i \in 1..Len(offsetsFile) : offsetsFile[i][1] = id

\* C20. Load before read: a read-mode cache is constructed with no offsets
\* loaded; until LoadOffsets has run Read(id) returns false for every id,
\* and once it has run Read(id) returns true for every id in the index file.
LoadBeforeRead ==
  /\ (phase = "read" /\ lastOp = "open") => m_elements = <<>>
  /\ (phase = "read" /\ m_fileSize = 0 /\ lastOp = "Read") => ~ret
  /\ (Loaded /\ lastOp = "Read" /\ InOffsetsFile(lastKey)) => ret

\* a Read of an id that is in the index file has returned false, LoadOffsets
\* not having run yet
LoadBeforeReadWitness ==
  /\ phase = "read" /\ lastOp = "Read"
  /\ m_fileSize = 0 /\ OffsetsFileSize > 0
  /\ InOffsetsFile(lastKey)
  /\ ~ret

\* ------------------------------------------------ point storage claims
\* the product lat * kValueOrder, with its fraction dropped, is within the
\* range of int32_t
InInt32(c) ==
  IF c.neg THEN c.hi < WordBase \div 2 \/ (c.hi = WordBase \div 2 /\ c.lo = 0)
  ELSE c.hi < WordBase \div 2

\* trunc(lat * kValueOrder) of a coordinate within the range of int32_t
Fixed(c) ==
  IF c.neg THEN (-c.hi) * WordBase - c.lo ELSE c.hi * WordBase + c.lo

\* the fixed-point pair of the i-th AddPoint, and the (lat, lng) that
\* GetPoint delivers for a fixed-point pair
FixedPair(i) == <<Fixed(points[i][2]), Fixed(points[i][3])>>
DegreesOf(p) == <<<<p[1], kValueOrder>>, <<p[2], kValueOrder>>>>

\* the AddPoint calls made for id: all, the first and the last
AddedAt(id) == {i \in 1..Len(points) : points[i][1] = id}
FirstAdded(id) == CHOOSE i \in AddedAt(id) : \A j \in AddedAt(id) : i <= j
LastAdded(id) == CHOOSE i \in AddedAt(id) : \A j \in AddedAt(id) : j <= i

DistinctPointIds ==
  \A i, j \in 1..Len(points) : i # j => points[i][1] # points[j][1]

Dense == strategy \in {"RawFile", "RawMem"}

\* C11. Dense storage miss: on a RawFilePointStorage reopened for reading,
\* GetPoint(id) returns false, and does not abort, for every id that was
\* never added, whether it lies below the largest id written or above it.
DenseMiss ==
  (strategy = "RawFile" /\ lastOp = "GetPoint" /\ AddedAt(lastKey) = {}) =>
    (phase = "read" /\ ~ret)

\* points were added and GetPoint has been called for an id above them all
DenseMissWitness ==
  /\ strategy = "RawFile" /\ lastOp = "GetPoint"
  /\ Len(points) = 2
  /\ \A i \in 1..Len(points) : points[i][1] < lastKey
  /\ lastKey >= Len(m_file)
  /\ ~ret

\* C12. Point round trip: in each of the three storages, after points with
\* pairwise distinct ids were added and the storage was reopened, GetPoint
\* of an added id whose fixed-point coordinates are not both zero returns
\* true with trunc(lat * 1e7) / 1e7 and trunc(lng * 1e7) / 1e7; in
\* MapFilePointStorage GetPoint of an id never added returns false.
PointRoundTrip ==
  (strategy \in Strategies /\ lastOp = "GetPoint" /\ DistinctPointIds) =>
    /\ \A i \in AddedAt(lastKey) :
         FixedPair(i) # <<0, 0>> => (ret /\ value = DegreesOf(FixedPair(i)))
    /\ (strategy = "MapFile" /\ AddedAt(lastKey) = {}) => ~ret

\* three points with distinct ids, and the one with a negative longitude
\* that has a fraction is read back
PointRoundTripWitness ==
  /\ strategy \in Strategies /\ lastOp = "GetPoint"
  /\ Len(points) = 3 /\ DistinctPointIds
  /\ ret
  /\ value = DegreesOf(<<0, -1>>)

\* C13. Out-of-range coordinate: in each of the three storages an AddPoint
\* whose fixed-point latitude or longitude is outside the range of int32_t
\* aborts, with the file and the processed-point counter as they were before
\* the call; an AddPoint within the range does not abort and counts the
\* point.
OutOfRangeAbort ==
  [][(strategy \in Strategies /\ points' # points) =>
       LET p == points'[Len(points')]
       IN  IF InInt32(p[2]) /\ InInt32(p[3])
           THEN /\ phase' = "write"
                /\ m_processedPoint' = m_processedPoint + 1
           ELSE /\ phase' = "aborted"
                /\ m_file' = m_file
                /\ m_processedPoint' = m_processedPoint]_vars

\* the third AddPoint aborted on its longitude after two points were stored
OutOfRangeAbortWitness ==
  /\ strategy \in Strategies /\ phase = "aborted"
  /\ Len(points) = 3 /\ m_processedPoint = 2
  /\ InInt32(points[3][2]) /\ ~InInt32(points[3][3])

\* C14. Zero sentinel: in the two dense storages GetPoint returns false
\* exactly when the record stored for the id has lat32 = 0 and lon32 = 0; a
\* point added with both fixed-point coordinates zero reads back as absent,
\* one with exactly one of them zero as present.
ZeroSentinel ==
  (Dense /\ lastOp = "GetPoint") =>
    /\ lastKey < Len(m_file) => (ret <=> m_file[lastKey + 1] # <<0, 0>>)
    /\ \A i \in AddedAt(lastKey) :
         AddedAt(lastKey) = {i} =>
           /\ FixedPair(i) = <<0, 0>> => ~ret
           /\ ((FixedPair(i)[1] = 0) # (FixedPair(i)[2] = 0)) => ret

\* a point whose coordinates both truncate to zero was added, once, and
\* GetPoint of its id has returned false
ZeroSentinelWitness ==
  /\ Dense /\ lastOp = "GetPoint"
  /\ \E i \in 1..Len(points) :
       AddedAt(lastKey) = {i} /\ FixedPair(i) = <<0, 0>>
  /\ ~ret

\* C18. MapFile repeated id: every AddPoint appends its record to the file,
\* also when the id was added before; after reopening GetPoint(id) returns
\* the coordinates of the first AddPoint made for id.
MapFileFirstWins ==
  strategy = "MapFile" =>
    /\ phase \in {"write", "closed", "read"} =>
         m_file = [i \in 1..Len(points) |->
                     <<points[i][1], FixedPair(i)[1], FixedPair(i)[2]>>]
    /\ (lastOp = "GetPoint" /\ AddedAt(lastKey) # {}) =>
         (ret /\ value = DegreesOf(FixedPair(FirstAdded(lastKey))))

\* an id was added twice with different coordinates and then looked up
MapFileFirstWinsWitness ==
  /\ strategy = "MapFile" /\ lastOp = "GetPoint"
  /\ Cardinality(AddedAt(lastKey)) = 2
  /\ FixedPair(FirstAdded(lastKey)) # FixedPair(LastAdded(lastKey))
  /\ ret

\* C19. Dense repeated id: in the two dense storages, after reopening,
\* GetPoint(id) reflects the last AddPoint made for id, whatever was added
\* for id before and whatever was added for other ids before, between or
\* after.
DenseLastWins ==
  (Dense /\ lastOp = "GetPoint" /\ AddedAt(lastKey) # {}) =>
    LET p == FixedPair(LastAdded(lastKey))
    IN  IF p = <<0, 0>> THEN ~ret ELSE (ret /\ value = DegreesOf(p))

\* an id was added twice with different coordinates, another id once, and
\* the first id is looked up
DenseLastWinsWitness ==
  /\ Dense /\ lastOp = "GetPoint"
  /\ Len(points) = 3
  /\ Cardinality(AddedAt(lastKey)) = 2
  /\ FixedPair(FirstAdded(lastKey)) # <<0, 0>>
  /\ FixedPair(FirstAdded(lastKey)) # FixedPair(LastAdded(lastKey))
  /\ ret

\* C17. Payload size limit: a Write whose payload length does not fit in
\* u32 fails fatally and leaves the index file without an entry for it and
\* the payload file without any of its bytes; a Write whose payload length is
\* one of 0 .. 2^32 - 1 is accepted and its record carries exactly that
\* length as its size prefix, followed by as many bytes.
PayloadSizeLimit ==
  lastOp = "WriteSized" =>
    LET size == written[Len(written)][2]
    IN  IF size[1] < WordBase
        THEN /\ phase = "write"
             /\ Len(m_storage) = Len(written)
             /\ m_storage[Len(m_storage)] = [size |-> size, bytes |-> size]
        ELSE /\ phase = "aborted"
             /\ Len(m_storage) = Len(written) - 1
             /\ Len(offsetsFile) <= Len(written) - 1

====
